---- MODULE Spec2Model ----
(***************************************************************************)
(* Model of house_name_extract.py: the module-level document (soup), the    *)
(* global coordinate dictionary all_corners, and the functions              *)
(* _get_corners, _clean, extract_house_info, get_house_names,               *)
(* get_previous_names and _main.                                            *)
(*                                                                          *)
(* Python values are tagged pairs: <<"s", n>> is a str (n is its rank in    *)
(* string order), <<"i", n>> an int, <<"t", seq>> a tuple of values.        *)
(* A call's outcome is [exc |-> "", val |-> v] when it returns v and        *)
(* [exc |-> name, val |-> <<>>] when the exception propagates.              *)
(***************************************************************************)
EXTENDS Integers, Sequences, FiniteSets

VARIABLES
    nodes,            \* soup.find_all('node'): sequence of [lat, lon]; a node's id is its position
    entities,         \* the tagged elements of soup: sequence of [tags, nd]
    all_corners,      \* the global dict: node id -> <<E, N>>
    op,               \* the last call made ("none" before any call)
    keys,             \* the keys argument of the last extract_house_info call
    ret,              \* outcome of the last call
    house_list,       \* extract_house_info's local list before _clean
    replacement_list, \* get_previous_names' local list before _clean
    houses,           \* _main's local: the result of extract_house_info
    outfile,          \* houses.csv: <<>> when not written, else header + lines
    count,            \* _main's counter, printed as "<count> houses found"
    build_passes,     \* number of times the loop of _get_corners has been run
    cin,              \* inputs of the _clean check (two sequences)
    cout              \* outcomes of the _clean check

vars == <<nodes, entities, all_corners, op, keys, ret, house_list,
          replacement_list, houses, outfile, count, build_passes, cin, cout>>

(***************************************************************************)
(* Bounds                                                                   *)
(***************************************************************************)
MaxTags == 3      \* tags in a document of the tag family
MaxNodes == 3     \* nodes in a document of the geometry family
MaxRefs == 3      \* nd references of the footprint entity
MaxBuilds == 2    \* build passes followed
MaxLen == 3       \* length of a _clean input

(***************************************************************************)
(* Python values and outcomes                                               *)
(***************************************************************************)
S(n) == <<"s", n>>
I(n) == <<"i", n>>
T(fs) == <<"t", fs>>
Fields(r) == r[2]
None == <<>>

Ok(v) == [exc |-> "", val |-> v]
Raise(e) == [exc |-> e, val |-> <<>>]

Range(f) == {f[i] : i \in DOMAIN f}
Min(a, b) == IF a < b THEN a ELSE b
SetMin(s) == CHOOSE x \in s : \A y \in s : x <= y
SetMax(s) == CHOOSE x \in s : \A y \in s : y <= x

HN == "addr:housename"
OLD == "old_name"
ST == "addr:street"
PC == "addr:postcode"

(***************************************************************************)
(* The document.  tag.get('k') / tag.get('v') are the fields k and v of a   *)
(* tag; tag.parent is the entity that holds it.                             *)
(***************************************************************************)
RECURSIVE TagsFrom(_)
\* positions <<e, i>> of the tags of entities e, e+1, ... in document order
TagsFrom(e) ==
    IF e > Len(entities) THEN <<>>
    ELSE [i \in 1..Len(entities[e].tags) |-> <<e, i>>] \o TagsFrom(e + 1)

\* soup.find_all('tag')
FindAllTags == TagsFrom(1)

TagAt(p) == entities[p[1]].tags[p[2]]

\* house.find_all('tag') for house = tag.parent
HouseTags(p) == entities[p[1]].tags

\* house.find_all('nd'), each place.get('ref')
HouseRefs(p) == entities[p[1]].nd

(***************************************************************************)
(* Python's ordering of values: < on str and on int, lexicographic on       *)
(* tuples, TypeError between a str and an int.                              *)
(***************************************************************************)
FirstDiff(a, b) ==
    LET d == {i \in 1..Min(Len(a), Len(b)) : a[i] # b[i]}
    IN IF d = {} THEN 0 ELSE CHOOSE i \in d : \A j \in d : i <= j

RECURSIVE PyComparable(_, _)
PyComparable(x, y) ==
    IF x[1] # y[1] THEN FALSE
    ELSE IF x[1] # "t" THEN TRUE
    ELSE LET i == FirstDiff(x[2], y[2])
         IN i = 0 \/ PyComparable(x[2][i], y[2][i])

RECURSIVE PyLess(_, _)
PyLess(x, y) ==
    IF x[1] # "t" THEN x[2] < y[2]
    ELSE LET i == FirstDiff(x[2], y[2])
         IN IF i = 0 THEN Len(x[2]) < Len(y[2]) ELSE PyLess(x[2][i], y[2][i])

RECURSIVE Sorted(_)
\* alist.sort() on a list of mutually comparable, distinct values
Sorted(set) ==
    IF set = {} THEN <<>>
    ELSE LET m == CHOOSE x \in set : \A y \in set \ {x} : PyLess(x, y)
         IN <<m>> \o Sorted(set \ {m})

\* _clean(seq): list(set(seq)), then sort
_clean(seq) ==
    LET alist == Range(seq)
    IN IF \E x, y \in alist : ~PyComparable(x, y)
       THEN Raise("TypeError")
       ELSE Ok(Sorted(alist))

(***************************************************************************)
(* _get_corners and the projection primitive                                *)
(***************************************************************************)
\* latlong2grid raises for a position outside the grid it covers
Projectable(n) == n.lat \in 0..9 /\ n.lon \in 0..9

\* grid.E, grid.N of latlong2grid(lat, lon): offsets from a false origin
latlong2grid(n) == <<2 + n.lon, 5 + n.lat>>

\* _get_corners without its test of all_corners: every call builds
_get_corners_unguarded ==
    LET bad == {i \in 1..Len(nodes) : ~Projectable(nodes[i])}
        stop == IF bad = {} THEN Len(nodes) + 1
                ELSE CHOOSE i \in bad : \A j \in bad : i <= j
    IN [idx |-> [i \in 1..(stop - 1) |-> latlong2grid(nodes[i])],
        ran |-> TRUE,
        exc |-> IF bad = {} THEN "" ELSE "ProjectionError"]

\* _get_corners(): the index after the call, whether the loop ran, and the
\* exception that left it
_get_corners ==
    IF DOMAIN all_corners # {}
    THEN [idx |-> all_corners, ran |-> FALSE, exc |-> ""]
    ELSE LET bad == {i \in 1..Len(nodes) : ~Projectable(nodes[i])}
             stop == IF bad = {} THEN Len(nodes) + 1
                     ELSE CHOOSE i \in bad : \A j \in bad : i <= j
         IN [idx |-> [i \in 1..(stop - 1) |-> latlong2grid(nodes[i])],
             ran |-> TRUE,
             exc |-> IF bad = {} THEN "" ELSE "ProjectionError"]

(***************************************************************************)
(* get_house_names and get_previous_names                                   *)
(***************************************************************************)
RECURSIVE HouseNames(_)
HouseNames(ps) ==
    IF ps = <<>> THEN <<>>
    ELSE (IF TagAt(Head(ps)).k = HN THEN <<S(TagAt(Head(ps)).v)>> ELSE <<>>)
         \o HouseNames(Tail(ps))

\* the inner loop appending (new_name, old_name), as the docstring has it
InnerLoopSwapped(old_name, htags) ==
    LET m == {i \in 1..Len(htags) : htags[i].k = HN}
    IN IF m = {} THEN <<>>
       ELSE LET f == CHOOSE i \in m : \A j \in m : i <= j
            IN << T(<<S(htags[f].v), S(old_name)>>) >>

\* the inner loop without its break
InnerLoopNoBreak(old_name, htags) ==
    LET Pairs[n \in 0..Len(htags)] ==
          IF n = 0 THEN <<>>
          ELSE Pairs[n - 1] \o (IF htags[n].k = HN
                                THEN << T(<<S(old_name), S(htags[n].v)>>) >>
                                ELSE <<>>)
    IN Pairs[Len(htags)]

\* the inner loop of get_previous_names: the pairs one old_name tag appends
InnerLoop(old_name, htags) ==
    LET m == {i \in 1..Len(htags) : htags[i].k = HN}
    IN IF m = {} THEN <<>>
       ELSE LET f == CHOOSE i \in m : \A j \in m : i <= j
            IN << T(<<S(old_name), S(htags[f].v)>>) >>

RECURSIVE ReplacementList(_)
ReplacementList(ps) ==
    IF ps = <<>> THEN <<>>
    ELSE (IF TagAt(Head(ps)).k = OLD
          THEN InnerLoop(TagAt(Head(ps)).v, HouseTags(Head(ps)))
          ELSE <<>>)
         \o ReplacementList(Tail(ps))

(***************************************************************************)
(* extract_house_info                                                       *)
(***************************************************************************)
\* int(x) for the quotient a / b: truncation toward zero
TruncDiv(a, b) ==
    LET q == (IF a < 0 THEN -a ELSE a) \div (IF b < 0 THEN -b ELSE b)
    IN IF (a < 0) = (b < 0) THEN q ELSE -q

RECURSIVE SumTo(_, _)
SumTo(f, n) == IF n = 0 THEN 0 ELSE f[n] + SumTo(f, n - 1)

\* the ring of Polygon(corners): closed by repeating the first point
Ring(corners) ==
    IF corners[1] = corners[Len(corners)] THEN corners
    ELSE Append(corners, corners[1])

\* Polygon(corners).centroid, then int() of its x and y.  A corner that is
\* None makes Polygon raise.  A ring that encloses an area has the
\* area-weighted centroid.  For a ring of zero area the geometry library
\* either rejects the ring or falls back to a centroid of its edges or
\* points, which lies within the ring's bounding box.
CentroidOutcomes(corners) ==
    IF \E j \in 1..Len(corners) : corners[j] = None
    THEN {Raise("TypeError")}
    ELSE
      LET r == Ring(corners)
          n == Len(r) - 1
          cross == [j \in 1..n |-> r[j][1] * r[j+1][2] - r[j+1][1] * r[j][2]]
          a2 == SumTo(cross, n)
          sx == SumTo([j \in 1..n |-> (r[j][1] + r[j+1][1]) * cross[j]], n)
          sy == SumTo([j \in 1..n |-> (r[j][2] + r[j+1][2]) * cross[j]], n)
          xs == {corners[j][1] : j \in 1..Len(corners)}
          ys == {corners[j][2] : j \in 1..Len(corners)}
      IN IF a2 # 0
         THEN {Ok(<<TruncDiv(sx, 3 * a2), TruncDiv(sy, 3 * a2)>>)}
         ELSE {Raise("ValueError")}
              \cup {Ok(<<x, y>>) : x \in SetMin(xs)..SetMax(xs),
                                   y \in SetMin(ys)..SetMax(ys)}

\* corners: all_corners.get(ref) for each nd of the house
Corners(p, idx) ==
    [j \in 1..Len(HouseRefs(p)) |->
        IF HouseRefs(p)[j] \in DOMAIN idx THEN idx[HouseRefs(p)[j]] ELSE None]

\* the values appended for the tags of the house whose key is in keys
RECURSIVE Aux(_, _)
Aux(htags, ks) ==
    IF htags = <<>> THEN <<>>
    ELSE (IF Head(htags).k \in Range(ks) THEN <<S(Head(htags).v)>> ELSE <<>>)
         \o Aux(Tail(htags), ks)

\* only the eastings appended
SuffixEastings(point) == <<I(point[1])>>

\* info.append(int(point.x)); info.append(int(point.y))
Suffix(point) == <<I(point[1]), I(point[2])>>

\* the body of the loop of extract_house_info for one addr:housename tag:
\* the tuple appended to house_list, or the exception raised
InfoOutcomes(p, ks, idx) ==
    LET info == <<S(TagAt(p).v)>> \o Aux(HouseTags(p), ks)
        corners == Corners(p, idx)
    IN IF Len(corners) >= 3
       THEN {IF c.exc = "" THEN Ok(T(info \o Suffix(c.val))) ELSE c :
                c \in CentroidOutcomes(corners)}
       ELSE {Ok(T(info))}

RECURSIVE HouseListOutcomes(_, _, _)
\* the loop of extract_house_info over the tags ps: house_list, or the
\* exception of the first house that raises
HouseListOutcomes(ps, ks, idx) ==
    IF ps = <<>> THEN {Ok(<<>>)}
    ELSE IF TagAt(Head(ps)).k # HN THEN HouseListOutcomes(Tail(ps), ks, idx)
    ELSE UNION {
           IF h.exc # "" THEN {h}
           ELSE {IF r.exc # "" THEN r ELSE Ok(<<h.val>> \o r.val) :
                    r \in HouseListOutcomes(Tail(ps), ks, idx)} :
           h \in InfoOutcomes(Head(ps), ks, idx)}

(***************************************************************************)
(* Documents.  A document of the tag family has one or two entities that    *)
(* share up to MaxTags tags, three nodes, and a first entity with or        *)
(* without a triangular footprint.  A document of the geometry family has   *)
(* up to MaxNodes nodes, each on a lattice point or outside the grid, one   *)
(* house with a postcode, a street and up to MaxRefs references, and a      *)
(* second house with a name only.                                           *)
(***************************************************************************)
TagAlphabet ==
    {[k |-> HN, v |-> 1], [k |-> HN, v |-> 2], [k |-> OLD, v |-> 3],
     [k |-> ST, v |-> 4], [k |-> PC, v |-> 5]}

GoodNode(i) == [lat |-> (i - 1) \div 2, lon |-> (i - 1) % 2]
BadNode == [lat |-> 10, lon |-> 0]

SeqsUpTo(n, alphabet) == UNION {[1..m -> alphabet] : m \in 0..n}

TagDocs ==
    UNION {
      {[nodes |-> <<GoodNode(1), GoodNode(2), GoodNode(3)>>,
        entities |->
          <<[tags |-> SubSeq(ts, 1, cut),
             nd |-> IF fp THEN <<1, 2, 3>> ELSE <<>>]>>
          \o (IF cut < Len(ts)
              THEN <<[tags |-> SubSeq(ts, cut + 1, Len(ts)), nd |-> <<>>]>>
              ELSE <<>>)] :
         cut \in 1..Len(ts), fp \in BOOLEAN} :
      ts \in SeqsUpTo(MaxTags, TagAlphabet) \ {<<>>}}

GeometryDocs ==
    {[nodes |-> [i \in 1..Len(ok) |-> IF ok[i] THEN GoodNode(i) ELSE BadNode],
      entities |-> <<[tags |-> <<[k |-> HN, v |-> 1], [k |-> PC, v |-> 5],
                                  [k |-> ST, v |-> 4]>>, nd |-> refs],
                     [tags |-> <<[k |-> HN, v |-> 2]>>, nd |-> <<>>]>>] :
       ok \in SeqsUpTo(MaxNodes, BOOLEAN),
       refs \in SeqsUpTo(MaxRefs, 1..MaxNodes)}

KeyLists == {<<>>, <<ST>>, <<ST, PC>>}

Init ==
    /\ \E d \in TagDocs \cup GeometryDocs :
          /\ nodes = d.nodes
          /\ entities = d.entities
    /\ all_corners = <<>>
    /\ op = "none"
    /\ keys = <<>>
    /\ ret = Ok(<<>>)
    /\ house_list = <<>>
    /\ replacement_list = <<>>
    /\ houses = <<>>
    /\ outfile = <<>>
    /\ count = 0
    /\ build_passes = 0
    /\ cin = <<>>
    /\ cout = <<>>

(***************************************************************************)
(* The calls                                                                *)
(***************************************************************************)
Header == <<"Name", "Postcode", "Road", "OSE", "OSN">>

\* the process has not ended and the next build pass is within the bound
CanCall == op # "main"
CanBuild == DOMAIN all_corners # {} \/ build_passes < MaxBuilds

extract_house_info(ks) ==
    /\ CanCall /\ CanBuild
    /\ LET b == _get_corners IN
         /\ all_corners' = b.idx
         /\ build_passes' = IF b.ran THEN build_passes + 1 ELSE build_passes
         /\ IF b.exc # ""
            THEN /\ ret' = Raise(b.exc)
                 /\ house_list' = <<>>
            ELSE \E o \in HouseListOutcomes(FindAllTags, ks, b.idx) :
                   /\ house_list' = o.val
                   /\ ret' = IF o.exc # "" THEN o ELSE _clean(o.val)
    /\ op' = "extract_house_info"
    /\ keys' = ks
    /\ replacement_list' = <<>>
    /\ UNCHANGED <<nodes, entities, houses, outfile, count, cin, cout>>

get_house_names ==
    /\ CanCall
    /\ ret' = _clean(HouseNames(FindAllTags))
    /\ op' = "get_house_names"
    /\ keys' = <<>>
    /\ house_list' = <<>>
    /\ replacement_list' = <<>>
    /\ UNCHANGED <<nodes, entities, all_corners, houses, outfile, count,
                   build_passes, cin, cout>>

get_previous_names ==
    /\ CanCall
    /\ replacement_list' = ReplacementList(FindAllTags)
    /\ ret' = _clean(replacement_list')
    /\ op' = "get_previous_names"
    /\ keys' = <<>>
    /\ house_list' = <<>>
    /\ UNCHANGED <<nodes, entities, all_corners, houses, outfile, count,
                   build_passes, cin, cout>>

\* the lines _main writes after the header, one per house of length 5
RECURSIVE Lines(_)
Lines(hs) ==
    IF hs = <<>> THEN <<>>
    ELSE (IF Len(Fields(Head(hs))) = 5 THEN <<Fields(Head(hs))>> ELSE <<>>)
         \o Lines(Tail(hs))

\* a count incremented for every house, written or not
CountAll(hs) == Len(hs)

\* _main's count after its loop: incremented with every line written
Count(hs) == Len(Lines(hs))

\* the script: get_house_names, extract_house_info, the file, then
\* get_previous_names; the process ends with it
_main ==
    /\ op = "none"
    /\ LET b == _get_corners IN
         /\ all_corners' = b.idx
         /\ build_passes' = IF b.ran THEN build_passes + 1 ELSE build_passes
         /\ IF b.exc # ""
            THEN /\ ret' = Raise(b.exc)
                 /\ house_list' = <<>>
                 /\ replacement_list' = <<>>
                 /\ UNCHANGED <<houses, outfile, count>>
            ELSE \E o \in HouseListOutcomes(FindAllTags, <<ST, PC>>, b.idx) :
                   LET r == IF o.exc # "" THEN o ELSE _clean(o.val) IN
                     /\ house_list' = o.val
                     /\ IF r.exc # ""
                        THEN /\ ret' = r
                             /\ replacement_list' = <<>>
                             /\ UNCHANGED <<houses, outfile, count>>
                        ELSE /\ houses' = r.val
                             /\ outfile' = <<Header>> \o Lines(r.val)
                             /\ count' = Count(r.val)
                             /\ replacement_list' = ReplacementList(FindAllTags)
                             /\ ret' = Ok(<<>>)
    /\ op' = "main"
    /\ keys' = <<ST, PC>>
    /\ UNCHANGED <<nodes, entities, cin, cout>>

Next ==
    \/ \E ks \in KeyLists : extract_house_info(ks)
    \/ get_house_names
    \/ get_previous_names
    \/ _main

Spec == Init /\ [][Next]_vars

(***************************************************************************)
(* _clean on its own: two input sequences that hold the same set of         *)
(* records, drawn from records of the shapes extract_house_info builds.     *)
(***************************************************************************)
CleanRecords ==
    {T(<<S(1)>>), T(<<S(1), S(4)>>), T(<<S(2)>>), T(<<S(1), I(2), I(5)>>)}

InitClean ==
    /\ nodes = <<>>
    /\ entities = <<>>
    /\ all_corners = <<>>
    /\ op = "none"
    /\ keys = <<>>
    /\ ret = Ok(<<>>)
    /\ house_list = <<>>
    /\ replacement_list = <<>>
    /\ houses = <<>>
    /\ outfile = <<>>
    /\ count = 0
    /\ build_passes = 0
    /\ cin \in {p \in SeqsUpTo(MaxLen, CleanRecords) \X SeqsUpTo(MaxLen, CleanRecords) :
                  Range(p[1]) = Range(p[2])}
    /\ cout = <<>>

CleanCall ==
    /\ cout = <<>>
    /\ cout' = <<_clean(cin[1]), _clean(cin[2])>>
    /\ UNCHANGED <<nodes, entities, all_corners, op, keys, ret, house_list,
                   replacement_list, houses, outfile, count, build_passes, cin>>

NextClean == CleanCall

SpecClean == InitClean /\ [][NextClean]_vars

(***************************************************************************)
(* Claims                                                                   *)
(***************************************************************************)
Returned == op = "extract_house_info" /\ ret.exc = ""

\* the positions of the addr:housename tags, in document order
HousePositions == SelectSeq(FindAllTags, LAMBDA p : TagAt(p).k = HN)

\* the number of tags of the house at p whose key is among ks
Requested(p, ks) ==
    Cardinality({i \in 1..Len(HouseTags(p)) : HouseTags(p)[i].k \in Range(ks)})

\* the number of references of the house at p found in the index
Resolvable(p) ==
    Cardinality({j \in 1..Len(HouseRefs(p)) : HouseRefs(p)[j] \in DOMAIN all_corners})

\* C1 as stated: every record extract_house_info returns has length 1 + k or
\* 3 + k, k the number of keys asked for.
C1_LengthByKeys ==
    Returned =>
        \A n \in 1..Len(ret.val) :
            Len(Fields(ret.val[n])) \in {1 + Len(keys), 3 + Len(keys)}

\* C1 amended: every record extract_house_info returns is that of a house
\* whose name it starts with, and has length 1 + j or 3 + j, j the number of
\* tags of that house whose key is among the keys asked for; it has length
\* 3 + j only if the house has three references or more.
C1_LengthByTags ==
    Returned =>
        \A n \in 1..Len(ret.val) :
            \E m \in 1..Len(HousePositions) :
                LET p == HousePositions[m]
                    len == Len(Fields(ret.val[n]))
                IN /\ Fields(ret.val[n])[1] = S(TagAt(p).v)
                   /\ \/ len = 1 + Requested(p, keys)
                      \/ len = 3 + Requested(p, keys) /\ Len(HouseRefs(p)) >= 3

\* a call with two keys returned a record of length 4: a house with one of
\* the two tags and a footprint
C1_Witness ==
    /\ Returned
    /\ Len(keys) = 2
    /\ \E n \in 1..Len(ret.val) :
          /\ Len(Fields(ret.val[n])) = 4
          /\ ret.val[n][2][4][1] = "i"

\* C2: the values that follow the name are in the order of the keys list:
\* for each key in turn, the values the house has for it.
C2_KeysOrder ==
    Returned =>
        \A m \in 1..Len(HousePositions) :
            LET p == HousePositions[m]
                j == Requested(p, keys)
                pos(v) == CHOOSE i \in 1..Len(keys) :
                            \E t \in Range(HouseTags(p)) : t.k = keys[i] /\ S(t.v) = v
            IN \A a, b \in 2..(1 + j) :
                  a < b => pos(Fields(house_list[m])[a]) <= pos(Fields(house_list[m])[b])

\* the build of the index did not raise in the last extract_house_info call
Extracted == op = "extract_house_info" /\ ret.exc # "ProjectionError"

\* the record of the house at p without / with the two coordinates c
Plain(p) == T(<<S(TagAt(p).v)>> \o Aux(HouseTags(p), keys))
WithCoords(p, c) == T(<<S(TagAt(p).v)>> \o Aux(HouseTags(p), keys) \o <<I(c[1]), I(c[2])>>)

\* C3: the footprint threshold counts the references that resolve: a house
\* with exactly two resolvable references yields its record without
\* coordinates, whatever other references it has, and a house with exactly
\* three resolvable references to distinct points not on a line yields its
\* record with two coordinates.
C3_ThresholdCountsResolvable ==
    Extracted =>
        \A m \in 1..Len(HousePositions) :
            LET p == HousePositions[m]
                pts == {all_corners[HouseRefs(p)[j]] :
                          j \in {i \in 1..Len(HouseRefs(p)) :
                                   HouseRefs(p)[i] \in DOMAIN all_corners}}
            IN /\ Resolvable(p) = 2 =>
                    ret.exc = "" /\ Plain(p) \in Range(ret.val)
               /\ (/\ Resolvable(p) = 3
                   /\ Cardinality(pts) = 3
                   /\ \E a, b, c \in pts :
                         (b[1] - a[1]) * (c[2] - a[2]) # (c[1] - a[1]) * (b[2] - a[2]))
                  => /\ ret.exc = ""
                     /\ \E x, y \in 0..9 : WithCoords(p, <<x, y>>) \in Range(ret.val)

\* C4: a node whose projection fails does not abort the build: when one
\* node between two others fails, then after a call that built the index the
\* call has not raised for it and the index holds every other node.
C4_BuildSurvivesFailure ==
    (/\ op = "extract_house_info" /\ build_passes >= 1
     /\ \E i \in 2..(Len(nodes) - 1) :
           {j \in 1..Len(nodes) : ~Projectable(nodes[j])} = {i}) =>
        /\ ret.exc # "ProjectionError"
        /\ DOMAIN all_corners = {i \in 1..Len(nodes) : Projectable(nodes[i])}

\* C7: a failing centroid computation is contained: a house one of whose
\* three or more references does not resolve still yields its record
\* without coordinates, the call returns, and every other house has its
\* record in the result.
C7_CentroidFailureContained ==
    (Extracted /\ \E m \in 1..Len(HousePositions) :
                      /\ Len(HouseRefs(HousePositions[m])) >= 3
                      /\ Resolvable(HousePositions[m]) < Len(HouseRefs(HousePositions[m])))
    => /\ ret.exc = ""
       /\ \A m \in 1..Len(HousePositions) :
             LET p == HousePositions[m] IN
               IF Len(HouseRefs(p)) >= 3 /\ Resolvable(p) < Len(HouseRefs(p))
               THEN Plain(p) \in Range(ret.val)
               ELSE \E r \in Range(ret.val) : Fields(r)[1] = S(TagAt(p).v)

\* the entities with an old_name tag / an addr:housename tag of value v
HasTag(e, k, v) == \E i \in 1..Len(entities[e].tags) :
                      entities[e].tags[i].k = k /\ entities[e].tags[i].v = v
Carries(e, k) == \E i \in 1..Len(entities[e].tags) : entities[e].tags[i].k = k

C10_FirstNameOnly ==
    op = "get_previous_names" =>
        /\ Len(replacement_list) <=
              Cardinality({p \in Range(FindAllTags) : TagAt(p).k = OLD})
        /\ \A n \in 1..Len(replacement_list) :
              \E e \in 1..Len(entities) :
                 LET hn == {i \in 1..Len(entities[e].tags) : entities[e].tags[i].k = HN}
                 IN /\ hn # {}
                    /\ HasTag(e, OLD, Fields(replacement_list[n])[1][2])
                    /\ Fields(replacement_list[n])[2] = S(entities[e].tags[SetMin(hn)].v)

\* an entity with an old name and two different house names was processed
C10_Witness ==
    /\ op = "get_previous_names"
    /\ Len(replacement_list) = 1
    /\ \E e \in 1..Len(entities) :
          /\ Carries(e, OLD)
          /\ HasTag(e, HN, 1)
          /\ HasTag(e, HN, 2)

\* C6: _clean returns, for two inputs with the same set of records, the
\* same sequence: every distinct record once, in ascending order.
C6_SetDetermined ==
    cout # <<>> =>
        /\ cout[1] = cout[2]
        /\ cout[1].exc = ""
        /\ Range(cout[1].val) = Range(cin[1])
        /\ \A a, b \in 1..Len(cout[1].val) :
              a < b => PyLess(cout[1].val[a], cout[1].val[b])

\* C8 as stated: the build pass runs once at most, whatever calls are made.
C8_SingleBuildPass == build_passes <= 1

\* C8 amended: all_corners is written only by the build pass of an
\* extract_house_info call that finds it empty, and its contents never
\* change after the first build pass; get_house_names and
\* get_previous_names leave it alone; the build pass runs again in every
\* extract_house_info call that finds the index still empty.
C8_WrittenOnlyWhileEmpty ==
    [][/\ DOMAIN all_corners # {} =>
             all_corners' = all_corners /\ build_passes' = build_passes
       /\ build_passes >= 1 => all_corners' = all_corners
       /\ op' \in {"get_house_names", "get_previous_names"} =>
             all_corners' = all_corners /\ build_passes' = build_passes
       /\ (op' \in {"extract_house_info", "main"} /\ DOMAIN all_corners = {}) =>
             build_passes' = build_passes + 1]_vars

\* the index was built by one pass and calls have followed that left it
C8_Witness ==
    /\ build_passes = 1
    /\ DOMAIN all_corners # {}
    /\ op = "get_previous_names"

\* _main wrote the file
Written == op = "main" /\ outfile # <<>>

\* the houses of five fields
FiveFields == {i \in 1..Len(houses) : Len(Fields(houses[i])) = 5}

\* the file is the header, then the houses of five fields in the order of
\* houses, which is ascending without repetition
FileLines ==
    /\ outfile[1] = Header
    /\ Len(outfile) = 1 + Cardinality(FiveFields)
    /\ \A i \in FiveFields :
          outfile[1 + Cardinality({j \in FiveFields : j <= i})] = Fields(houses[i])
    /\ \A a, b \in 1..Len(houses) : a < b => PyLess(houses[a], houses[b])
    /\ Range(houses) = Range(house_list)

\* C9 as stated: the file holds the houses of five fields, and the houses
\* left out of it are counted as well.
C9_ShortRecordsCounted ==
    Written => FileLines /\ count = Len(houses)

\* C9 amended: the file is the header followed by one line per house of five
\* fields, in the normalized order; a house with another number of fields
\* gives no line and is not counted: the count reported is the number of
\* lines written.
C9_CountIsLinesWritten ==
    Written => FileLines /\ count = Len(outfile) - 1

\* a file with a line, from a document that also has a house of fewer fields
C9_Witness ==
    /\ Written
    /\ Len(outfile) >= 2
    /\ \E i \in 1..Len(houses) : Len(Fields(houses[i])) < 5

====
